---- MODULE Spec2Model ----
(***************************************************************************)
(* check_missing_files.py: compare two directories by file-name stem and   *)
(* report, or with --move relocate into <dir>/notfound, the files whose    *)
(* stem occurs in one directory only.                                      *)
(*                                                                         *)
(* A file name is a tuple of one-character strings, a path is a tuple of   *)
(* names, and the filesystem is a function from the existing paths to      *)
(* entries.  A regular file carries the path it had when the program       *)
(* started (id), which identifies its content.                             *)
(***************************************************************************)
EXTENDS Integers, Sequences, FiniteSets, TLC

VARIABLES
    fs,                 \* the filesystem: existing path -> [kind, id]
    fs0,                \* the filesystem when the program started
    fs_pre,             \* the filesystem when the current call of main() started
    source_path,        \* Path(args.source_dir)
    target_path,        \* Path(args.target_dir)
    move,               \* args.move
    pass,               \* which of the two calls of main() is running
    pc,                 \* position in main()
    source_map,         \* main: source_map
    target_map,         \* main: target_map
    scan_failed,        \* sides whose scan hit OSError in the current call of main()
    missing_in_target,  \* main: missing_in_target
    missing_in_source,  \* main: missing_in_source
    lists1,             \* the two lists computed by the first call of main()
    pd_side,            \* which call of process_differences is running
    pd_i,               \* process_differences: index of stem in diff_stems
    pd_j,               \* process_differences: index of filename in stem_map[stem]
    out,                \* standard output, one record per printed report line
    calls,              \* how often each function has been called so far
    faults              \* how many I/O faults the environment has raised so far

vars == <<fs, fs0, fs_pre, source_path, target_path, move, pass, pc, source_map,
          target_map, scan_failed, missing_in_target, missing_in_source, lists1,
          pd_side, pd_i, pd_j, out, calls, faults>>

(***************************************************************************)
(* Bounds and the universe of inputs                                       *)
(***************************************************************************)
\* at most this many entries exist below the two root directories at start
MaxEntries == 3
\* at most this many calls fail on an I/O fault of the environment (a call that
\* must fail for the state of the filesystem is not counted)
MaxFaults == 2

AP == <<"a", ".", "p">>
AM == <<"a", ".", "m">>
B == <<"b">>
HA == <<".", "a">>
NOTFOUND == <<"n", "o", "t", "f", "o", "u", "n", "d">>
SROOT == <<"S">>
TROOT == <<"T">>

\* the candidate entries of the initial filesystem, as <<path, kind>>
Slots ==
    { <<(<<SROOT, AP>>), "file">>, <<(<<SROOT, AM>>), "file">>,
      <<(<<SROOT, B>>), "file">>, <<(<<SROOT, HA>>), "file">>,
      <<(<<SROOT, NOTFOUND>>), "dir">>, <<(<<SROOT, NOTFOUND>>), "file">>,
      <<(<<SROOT, NOTFOUND, B>>), "file">>, <<(<<SROOT, NOTFOUND, B>>), "dir">>,
      <<(<<SROOT, NOTFOUND, B, B>>), "file">>,
      <<(<<TROOT, AM>>), "file">>, <<(<<TROOT, AM>>), "dir">>,
      <<(<<TROOT, B>>), "file">> }

\* the target directories tried against the source directory <<SROOT>>
TargetPaths == { <<TROOT>>, <<SROOT>>, <<SROOT, NOTFOUND>>, <<SROOT, NOTFOUND, B>> }

RECURSIVE BoundedSubsets(_, _)
BoundedSubsets(S, n) ==
    IF n = 0 THEN { {} }
    ELSE LET prev == BoundedSubsets(S, n - 1)
         IN  prev \cup { e \cup {x} : e \in prev, x \in S }

Parent(p) == SubSeq(p, 1, Len(p) - 1)
Basename(p) == p[Len(p)]

\* the entries E, below the roots R, form a tree: one kind per path, and every
\* parent is a root or a directory of E
WellFormed(R, E) ==
    /\ \A e1, e2 \in E : e1[1] = e2[1] => e1 = e2
    /\ \A e \in E : \/ Parent(e[1]) \in R
                    \/ <<Parent(e[1]), "dir">> \in E

MakeFs(R, E) ==
    [p \in R \cup { e[1] : e \in E } |->
        IF p \in R THEN [kind |-> "dir", id |-> <<>>]
        ELSE IF <<p, "dir">> \in E THEN [kind |-> "dir", id |-> <<>>]
        ELSE [kind |-> "file", id |-> p]]

(***************************************************************************)
(* pathlib / os on the modelled filesystem                                 *)
(***************************************************************************)
Exists(f, p) == p \in DOMAIN f
IsDir(f, p) == p \in DOMAIN f /\ f[p].kind = "dir"
IsFile(f, p) == p \in DOMAIN f /\ f[p].kind = "file"

\* the names of the entries directly in directory d
Listing(f, d) ==
    { Basename(q) : q \in { q \in DOMAIN f : Len(q) = Len(d) + 1 /\ Parent(q) = d } }

EmptyMap == [s \in {} |-> <<>>]

(***************************************************************************)
(* Pure functions                                                          *)
(***************************************************************************)
\* code point of a character (Python compares str by code point)
Ord(c) ==
    CASE c = "." -> 46
      [] c = "S" -> 83
      [] c = "T" -> 84
      [] c = "a" -> 97
      [] c = "b" -> 98
      [] c = "d" -> 100
      [] c = "f" -> 102
      [] c = "m" -> 109
      [] c = "n" -> 110
      [] c = "o" -> 111
      [] c = "p" -> 112
      [] c = "t" -> 116
      [] c = "u" -> 117

\* index of the last "." of name, 0 when there is none (str.rfind)
LastDot(name) ==
    LET dots == { i \in 1..Len(name) : name[i] = "." }
    IN  IF dots = {} THEN 0 ELSE CHOOSE i \in dots : \A k \in dots : k <= i

\* os.path.splitext(name)[0]: cut at the last dot unless only dots precede it
Splitext(name) ==
    LET dotIndex == LastDot(name)
    IN  IF dotIndex > 0 /\ \E k \in 1..(dotIndex - 1) : name[k] # "."
        THEN SubSeq(name, 1, dotIndex - 1)
        ELSE name

\* name.startswith('.')
IsHidden(name) == Len(name) > 0 /\ name[1] = "."

\* a < b for two str
StrLess(a, b) ==
    \E i \in 1..(Len(a) + 1) :
        /\ i <= Len(b)
        /\ \A k \in 1..(i - 1) : a[k] = b[k]
        /\ (i = Len(a) + 1 \/ Ord(a[i]) < Ord(b[i]))

\* a sort that puts the greatest first
RECURSIVE SortedDescending(_)
SortedDescending(S) ==
    IF S = {} THEN <<>>
    ELSE LET greatest == CHOOSE x \in S : \A y \in S \ {x} : StrLess(y, x)
         IN  <<greatest>> \o SortedDescending(S \ {greatest})

\* sorted(list(S)) for a set S of str
RECURSIVE Sorted(_)
Sorted(S) ==
    IF S = {} THEN <<>>
    ELSE LET least == CHOOSE x \in S : \A y \in S \ {x} : StrLess(x, y)
         IN  <<least>> \o Sorted(S \ {least})

\* every order in which the elements of S can be listed
Orders(S) ==
    { q \in [1..Cardinality(S) -> S] : \A i, j \in DOMAIN q : q[i] = q[j] => i = j }

\* the stem map built by lines 26-29 from the file names in the order seq
BuildMap(seq) ==
    [s \in { Splitext(seq[i]) : i \in DOMAIN seq } |->
        LET SameStem(n) == Splitext(n) = s IN SelectSeq(seq, SameStem)]

\* line 25 without the test for a leading dot
EligibleWithHidden(f, directory, name) == IsFile(f, directory \o <<name>>)

\* line 25: the entry is entered in the map
Eligible(f, directory, name) ==
    IsFile(f, directory \o <<name>>) /\ ~IsHidden(name)

(***************************************************************************)
(* get_stem_map: the results one call can return.  os.scandir yields the   *)
(* entries in arbitrary order and may raise OSError at any point; the map  *)
(* built from the entries yielded so far is returned.                      *)
(***************************************************************************)
get_stem_map(f, directory) ==
    IF ~Exists(f, directory)
    THEN { [map |-> EmptyMap, found |-> FALSE, failed |-> FALSE] }
    ELSE IF ~IsDir(f, directory)
    THEN { [map |-> EmptyMap, found |-> TRUE, failed |-> TRUE] }
    ELSE LET all == Listing(f, directory)
         IN  UNION { { [map |-> BuildMap(q), found |-> TRUE, failed |-> e] :
                         q \in Orders({ n \in yielded : Eligible(f, directory, n) }),
                         e \in IF yielded = all THEN BOOLEAN ELSE {TRUE} } :
                     yielded \in SUBSET all }

(***************************************************************************)
(* Path.mkdir(parents=True, exist_ok=True) and shutil.move                 *)
(***************************************************************************)
Prefixes(p) == { SubSeq(p, 1, k) : k \in 1..Len(p) }

\* mkdir can succeed: nothing on the way is a regular file
MkdirPossible(f, p) == \A q \in Prefixes(p) : Exists(f, q) => IsDir(f, q)

Mkdir(f, p) ==
    [q \in DOMAIN f \cup Prefixes(p) |->
        IF q \in DOMAIN f THEN f[q] ELSE [kind |-> "dir", id |-> <<>>]]

\* where shutil.move(src, dst) puts src: inside dst when dst is a directory
RealDst(f, src, dst) == IF IsDir(f, dst) THEN dst \o <<Basename(src)>> ELSE dst

\* shutil.move(src, dst) of a regular file succeeds (no fault of the environment)
MovePossible(f, src, dst) ==
    /\ IsFile(f, src)
    /\ IsDir(f, dst) => ~Exists(f, RealDst(f, src, dst))
    /\ IsDir(f, Parent(RealDst(f, src, dst)))

\* the filesystem after a successful shutil.move(src, dst): a regular file at the
\* destination is replaced
ShutilMove(f, src, dst) ==
    LET real_dst == RealDst(f, src, dst)
    IN  [q \in (DOMAIN f \ {src}) \cup {real_dst} |->
            IF q = real_dst THEN f[src] ELSE f[q]]

(***************************************************************************)
(* The program                                                             *)
(***************************************************************************)
\* the module ends with two identical "if __name__ == '__main__': main()" blocks
NumGuards == 2

NoLists == [target |-> <<>>, source |-> <<>>]

Msg(t, side, name, n) == [pass |-> pass, t |-> t, side |-> side, name |-> name, n |-> n]

Init ==
    /\ \E R \in SUBSET { <<SROOT>>, <<TROOT>> }, E \in BoundedSubsets(Slots, MaxEntries) :
          /\ WellFormed(R, E)
          /\ fs = MakeFs(R, E)
    /\ fs0 = fs
    /\ fs_pre = fs
    /\ source_path = <<SROOT>>
    /\ target_path \in TargetPaths
    /\ (<<TROOT>> \in DOMAIN fs) => target_path = <<TROOT>>
    /\ move \in BOOLEAN
    /\ pass = 1
    /\ pc = "guard"
    /\ source_map = EmptyMap
    /\ target_map = EmptyMap
    /\ scan_failed = {}
    /\ missing_in_target = <<>>
    /\ missing_in_source = <<>>
    /\ lists1 = NoLists
    /\ pd_side = "none"
    /\ pd_i = 0
    /\ pd_j = 0
    /\ out = <<>>
    /\ calls = [main |-> 0, scan_source |-> 0, scan_target |-> 0, diff |-> 0,
                pd_source |-> 0, pd_target |-> 0]
    /\ faults = 0

\* lines 124-125 and 127-128: a guard calls main(); lines 93-102
Guard ==
    /\ pc = "guard"
    /\ pc' = "scan_source"
    /\ fs_pre' = fs
    /\ UNCHANGED <<fs, fs0, source_path, target_path, move, pass, source_map,
                   target_map, scan_failed, missing_in_target, missing_in_source,
                   lists1, pd_side, pd_i, pd_j, out, faults>>
    /\ calls' = [calls EXCEPT !.main = @ + 1]

\* what get_stem_map prints for the result r
ScanOutput(side, r) ==
    IF ~r.found THEN <<Msg("dir_not_found", side, <<>>, 0)>>
    ELSE IF r.failed THEN <<Msg("scan_error", side, <<>>, 0)>>
    ELSE <<>>

\* the result r of get_stem_map(directory) is due to an I/O fault: OSError
\* although the directory can be listed
ScanFault(f, directory, r) == r.failed /\ IsDir(f, directory)

\* line 104: source_map = get_stem_map(source_path)
ScanSource ==
    /\ pc = "scan_source"
    /\ \E r \in get_stem_map(fs, source_path) :
          /\ ScanFault(fs, source_path, r) => faults < MaxFaults
          /\ faults' = IF ScanFault(fs, source_path, r) THEN faults + 1 ELSE faults
          /\ source_map' = r.map
          /\ scan_failed' = IF r.failed THEN scan_failed \cup {"source"} ELSE scan_failed
          /\ out' = out \o ScanOutput("source", r)
    /\ pc' = "scan_target"
    /\ UNCHANGED <<fs, fs0, fs_pre, source_path, target_path, move, pass, target_map,
                   missing_in_target, missing_in_source, lists1, pd_side, pd_i, pd_j>>
    /\ calls' = [calls EXCEPT !.scan_source = @ + 1]

\* line 105: target_map = get_stem_map(target_path)
ScanTarget ==
    /\ pc = "scan_target"
    /\ \E r \in get_stem_map(fs, target_path) :
          /\ ScanFault(fs, target_path, r) => faults < MaxFaults
          /\ faults' = IF ScanFault(fs, target_path, r) THEN faults + 1 ELSE faults
          /\ target_map' = r.map
          /\ scan_failed' = IF r.failed THEN scan_failed \cup {"target"} ELSE scan_failed
          /\ out' = out \o ScanOutput("target", r)
    /\ pc' = "diff"
    /\ UNCHANGED <<fs, fs0, fs_pre, source_path, target_path, move, pass, source_map,
                   missing_in_target, missing_in_source, lists1, pd_side, pd_i, pd_j>>
    /\ calls' = [calls EXCEPT !.scan_target = @ + 1]

\* lines 107-113
MissingInTarget(smap, tmap) == Sorted(DOMAIN smap \ DOMAIN tmap)
MissingInSource(smap, tmap) == Sorted(DOMAIN tmap \ DOMAIN smap)

\* lines 107-116: the two lists, and the match message when both are empty
ComputeDiff ==
    /\ pc = "diff"
    /\ missing_in_target' = MissingInTarget(source_map, target_map)
    /\ missing_in_source' = MissingInSource(source_map, target_map)
    /\ lists1' = IF pass = 1
                 THEN [target |-> missing_in_target', source |-> missing_in_source']
                 ELSE lists1
    /\ IF missing_in_target' = <<>> /\ missing_in_source' = <<>>
       THEN /\ out' = Append(out, Msg("match", "none", <<>>, 0))
            /\ pc' = "main_end"
            /\ pd_side' = pd_side
       ELSE /\ out' = out
            /\ pc' = "pd_enter"
            /\ pd_side' = "source"
    /\ UNCHANGED <<fs, fs0, fs_pre, source_path, target_path, move, pass, source_map,
                   target_map, scan_failed, pd_i, pd_j, faults>>
    /\ calls' = IF missing_in_target' = <<>> /\ missing_in_source' = <<>>
                 THEN [calls EXCEPT !.diff = @ + 1]
                 ELSE [calls EXCEPT !.diff = @ + 1, !.pd_source = @ + 1]

\* the arguments of the running call of process_differences (lines 119, 122)
base_dir == IF pd_side = "source" THEN source_path ELSE target_path
diff_stems == IF pd_side = "source" THEN missing_in_target ELSE missing_in_source
stem_map == IF pd_side = "source" THEN source_map ELSE target_map
\* line 61
notfound_dir == base_dir \o <<NOTFOUND>>

\* the flag is not consulted
MoveAlways == TRUE

\* lines 62, 73, 83: if move
MoveRequested == move

\* main() ends after the first call of process_differences
PDReturnSkipsTarget ==
    /\ pd_i' = 0
    /\ pd_j' = 0
    /\ pd_side' = "none"
    /\ pc' = "main_end"
    /\ calls' = calls

\* process_differences returns: main goes on with the target side, or ends
PDReturn ==
    /\ pd_i' = 0
    /\ pd_j' = 0
    /\ IF pd_side = "source"
       THEN /\ pd_side' = "target"
            /\ pc' = "pd_enter"
            /\ calls' = [calls EXCEPT !.pd_target = @ + 1]
       ELSE /\ pd_side' = "none"
            /\ pc' = "main_end"
            /\ calls' = calls

\* lines 56-57: nothing to report
PDEmpty ==
    /\ pc = "pd_enter"
    /\ diff_stems = <<>>
    /\ PDReturn
    /\ UNCHANGED <<fs, fs0, fs_pre, source_path, target_path, move, pass, source_map,
                   target_map, scan_failed, missing_in_target, missing_in_source,
                   lists1, out, faults>>

\* lines 59-63: the header; notfound is not to be created
PDEnter ==
    /\ pc = "pd_enter"
    /\ diff_stems # <<>>
    /\ ~(MoveRequested /\ ~Exists(fs, notfound_dir))
    /\ out' = Append(out, Msg("header", pd_side, <<>>, Len(diff_stems)))
    /\ pc' = "pd_loop"
    /\ pd_i' = 1
    /\ pd_j' = 0
    /\ UNCHANGED <<fs, fs0, fs_pre, source_path, target_path, move, pass, source_map,
                   target_map, scan_failed, missing_in_target, missing_in_source,
                   lists1, pd_side, calls, faults>>

\* lines 59-66: the header; notfound is created
PDMkdir ==
    /\ pc = "pd_enter"
    /\ diff_stems # <<>>
    /\ MoveRequested /\ ~Exists(fs, notfound_dir)
    /\ MkdirPossible(fs, notfound_dir)
    /\ fs' = Mkdir(fs, notfound_dir)
    /\ out' = out \o << Msg("header", pd_side, <<>>, Len(diff_stems)),
                        Msg("created", pd_side, <<>>, 0) >>
    /\ pc' = "pd_loop"
    /\ pd_i' = 1
    /\ pd_j' = 0
    /\ UNCHANGED <<fs0, fs_pre, source_path, target_path, move, pass, source_map,
                   target_map, scan_failed, missing_in_target, missing_in_source,
                   lists1, pd_side, calls, faults>>

\* lines 59-69: the header; mkdir raises OSError, for the state of the
\* filesystem or on an I/O fault, and process_differences returns
PDMkdirFail ==
    /\ pc = "pd_enter"
    /\ diff_stems # <<>>
    /\ MoveRequested /\ ~Exists(fs, notfound_dir)
    /\ MkdirPossible(fs, notfound_dir) => faults < MaxFaults
    /\ faults' = IF MkdirPossible(fs, notfound_dir) THEN faults + 1 ELSE faults
    /\ out' = out \o << Msg("header", pd_side, <<>>, Len(diff_stems)),
                        Msg("mkdir_error", pd_side, <<>>, 0) >>
    /\ PDReturn
    /\ UNCHANGED <<fs, fs0, fs_pre, source_path, target_path, move, pass, source_map,
                   target_map, scan_failed, missing_in_target, missing_in_source,
                   lists1>>

\* lines 71-73: the next stem is printed
PDStem ==
    /\ pc = "pd_loop"
    /\ pd_i <= Len(diff_stems)
    /\ pd_j = 0
    /\ out' = Append(out, Msg("stem", pd_side, diff_stems[pd_i], 0))
    /\ IF MoveRequested THEN pd_i' = pd_i /\ pd_j' = 1
               ELSE pd_i' = pd_i + 1 /\ pd_j' = 0
    /\ UNCHANGED <<fs, fs0, fs_pre, source_path, target_path, move, pass, pc,
                   source_map, target_map, scan_failed, missing_in_target,
                   missing_in_source, lists1, pd_side, calls, faults>>

\* the file the inner loop is at (line 74)
filename == stem_map[diff_stems[pd_i]][pd_j]
\* lines 75-76
src_file == base_dir \o <<filename>>
dst_file == notfound_dir \o <<filename>>

\* the inner loop goes on to the next file, or the outer loop to the next stem
PDAdvance ==
    IF pd_j = Len(stem_map[diff_stems[pd_i]])
    THEN pd_i' = pd_i + 1 /\ pd_j' = 0
    ELSE pd_i' = pd_i /\ pd_j' = pd_j + 1

\* lines 74-79: shutil.move succeeds
PDMove ==
    /\ pc = "pd_loop"
    /\ pd_i <= Len(diff_stems)
    /\ pd_j >= 1
    /\ MovePossible(fs, src_file, dst_file)
    /\ fs' = ShutilMove(fs, src_file, dst_file)
    /\ out' = Append(out, Msg("moved", pd_side, filename, 0))
    /\ PDAdvance
    /\ UNCHANGED <<fs0, fs_pre, source_path, target_path, move, pass, pc, source_map,
                   target_map, scan_failed, missing_in_target, missing_in_source,
                   lists1, pd_side, calls, faults>>

\* a failed move ends both loops
PDMoveFailAborts ==
    /\ pc = "pd_loop"
    /\ pd_i <= Len(diff_stems)
    /\ pd_j >= 1
    /\ MovePossible(fs, src_file, dst_file) => faults < MaxFaults
    /\ faults' = IF MovePossible(fs, src_file, dst_file) THEN faults + 1 ELSE faults
    /\ out' = Append(out, Msg("move_failed", pd_side, filename, 0))
    /\ pd_i' = Len(diff_stems) + 1
    /\ pd_j' = 0
    /\ UNCHANGED <<fs, fs0, fs_pre, source_path, target_path, move, pass, pc,
                   source_map, target_map, scan_failed, missing_in_target,
                   missing_in_source, lists1, pd_side, calls>>

\* lines 74-81: shutil.move raises OSError, for the state of the filesystem or
\* on an I/O fault
PDMoveFail ==
    /\ pc = "pd_loop"
    /\ pd_i <= Len(diff_stems)
    /\ pd_j >= 1
    /\ MovePossible(fs, src_file, dst_file) => faults < MaxFaults
    /\ faults' = IF MovePossible(fs, src_file, dst_file) THEN faults + 1 ELSE faults
    /\ out' = Append(out, Msg("move_failed", pd_side, filename, 0))
    /\ PDAdvance
    /\ UNCHANGED <<fs, fs0, fs_pre, source_path, target_path, move, pass, pc,
                   source_map, target_map, scan_failed, missing_in_target,
                   missing_in_source, lists1, pd_side, calls>>

\* lines 83-85: the loop is over
PDFinish ==
    /\ pc = "pd_loop"
    /\ pd_i > Len(diff_stems)
    /\ out' = IF MoveRequested THEN Append(out, Msg("summary", pd_side, <<>>, Len(diff_stems)))
              ELSE out
    /\ PDReturn
    /\ UNCHANGED <<fs, fs0, fs_pre, source_path, target_path, move, pass, source_map,
                   target_map, scan_failed, missing_in_target, missing_in_source,
                   lists1, faults>>

\* main() returns to the guard that called it: the second guard calls it again
MainReturn ==
    /\ pc = "main_end"
    /\ IF pass < NumGuards
       THEN /\ pass' = pass + 1
            /\ pc' = "guard"
       ELSE /\ pass' = pass
            /\ pc' = "exit"
    /\ source_map' = EmptyMap
    /\ target_map' = EmptyMap
    /\ scan_failed' = {}
    /\ missing_in_target' = <<>>
    /\ missing_in_source' = <<>>
    /\ UNCHANGED <<fs, fs0, fs_pre, source_path, target_path, move, lists1, pd_side,
                   pd_i, pd_j, out, calls, faults>>

Next ==
    \/ Guard
    \/ ScanSource
    \/ ScanTarget
    \/ ComputeDiff
    \/ PDEmpty
    \/ PDEnter
    \/ PDMkdir
    \/ PDMkdirFail
    \/ PDStem
    \/ PDMove
    \/ PDMoveFail
    \/ PDFinish
    \/ MainReturn

Spec == Init /\ [][Next]_vars

(***************************************************************************)
(* Vocabulary of the properties                                            *)
(***************************************************************************)
Sides == {"source", "target"}
DirOf(side) == IF side = "source" THEN source_path ELSE target_path
MapOf(side) == IF side = "source" THEN source_map ELSE target_map
ListOf(side) == IF side = "source" THEN missing_in_target ELSE missing_in_source
Other(side) == IF side = "source" THEN "target" ELSE "source"
Range(seq) == { seq[i] : i \in DOMAIN seq }

\* a file name minus its final extension: the text before its last "."
FinalExtensionCut(name) ==
    IF LastDot(name) = 0 THEN name ELSE SubSeq(name, 1, LastDot(name) - 1)

\* the non-hidden regular files directly in directory d
VisibleFiles(f, d) ==
    { n \in Listing(f, d) : f[d \o <<n>>].kind = "file" /\ n[1] # "." }

\* keys(X): the stems of the non-hidden regular files directly in d; a directory
\* that does not exist contributes none
KeysOf(f, d) == { FinalExtensionCut(n) : n \in VisibleFiles(f, d) }

\* seq lists the set S in ascending order without repetition
IsSortedListOf(seq, S) ==
    /\ Range(seq) = S
    /\ \A i, j \in DOMAIN seq : i < j => StrLess(seq[i], seq[j])

\* the lines of kind t printed for side in the p-th call of main()
Lines(t, side, p) ==
    { i \in DOMAIN out : out[i].t = t /\ out[i].side = side /\ out[i].pass = p }

\* main() has computed its two lists and not yet returned
ListsComputed == pc \in {"pd_enter", "pd_loop", "main_end"}

\* no scan of the p-th call of main() was cut short by OSError
ScansComplete(p) == \A i \in DOMAIN out : out[i].pass = p => out[i].t # "scan_error"

(***************************************************************************)
(* C1                                                                      *)
(***************************************************************************)
ExactLists ==
    /\ IsSortedListOf(missing_in_target,
                      KeysOf(fs_pre, source_path) \ KeysOf(fs_pre, target_path))
    /\ IsSortedListOf(missing_in_source,
                      KeysOf(fs_pre, target_path) \ KeysOf(fs_pre, source_path))

\* C1 as stated: whatever the two directories hold, the two lists main() computes
\* are keys(A) - keys(B) and keys(B) - keys(A), each in ascending order.
C1_ListsAlwaysExact == ListsComputed => ExactLists

\* C1 amended: when neither scan of this call of main() was cut short by an I/O
\* error, the two lists are keys(A) - keys(B) and keys(B) - keys(A), each in
\* ascending order; a stem in both directories is in neither list.
C1_ListsExactAfterCompleteScans ==
    (ListsComputed /\ ScansComplete(pass)) => ExactLists

\* a.p in the source and a.m in the target match, one more stem is exclusive, all
\* after complete scans
C1_Witness ==
    /\ ListsComputed /\ ScansComplete(pass)
    /\ IsFile(fs_pre, source_path \o <<AP>>)
    /\ IsFile(fs_pre, target_path \o <<AM>>)
    /\ source_path # target_path
    /\ Len(missing_in_target) + Len(missing_in_source) >= 1
    /\ <<"a">> \notin Range(missing_in_target) \cup Range(missing_in_source)

(***************************************************************************)
(* C3                                                                      *)
(***************************************************************************)
\* C3: without --move the filesystem never changes (no notfound directory is
\* created, no file is moved), and the second comparison of the unchanged
\* filesystem, its scans complete like the first one's, computes the same two lists.
C3_NoMoveNoEffect ==
    ~move =>
        /\ fs = fs0
        /\ (pass = 2 /\ ListsComputed /\ ScansComplete(1) /\ ScansComplete(2)) =>
              /\ missing_in_target = lists1.target
              /\ missing_in_source = lists1.source

\* without --move, the second comparison has reported differences in both
\* directions and is about to return
C3_Witness ==
    /\ ~move /\ pass = 2 /\ pc = "main_end"
    /\ ScansComplete(1) /\ ScansComplete(2)
    /\ missing_in_target # <<>> /\ missing_in_source # <<>>
    /\ Lines("stem", "source", 2) # {} /\ Lines("stem", "target", 2) # {}
    /\ ~Exists(fs, source_path \o <<NOTFOUND>>)

(***************************************************************************)
(* C4                                                                      *)
(***************************************************************************)
\* an entry that must be ignored: a hidden file or a non-file entry
Ignored(f, q) == f[q].kind # "file" \/ Basename(q)[1] = "."

\* C4: a hidden file or a non-file entry is never entered in a stem map, its
\* stem is never reported for it, it never makes a stem count as matched, and
\* it is never moved.
C4_IgnoredEntries ==
    /\ \A side \in Sides : \A s \in DOMAIN MapOf(side) : \A i \in DOMAIN MapOf(side)[s] :
          LET q == DirOf(side) \o <<MapOf(side)[s][i]>>
          IN  q \in DOMAIN fs_pre /\ ~Ignored(fs_pre, q)
    /\ \A side \in Sides : \A i \in Lines("stem", side, pass) :
          out[i].name \in KeysOf(fs_pre, DirOf(side))
    /\ ListsComputed =>
          \A side \in Sides : \A s \in DOMAIN MapOf(side) :
              s \notin Range(ListOf(side)) => s \in KeysOf(fs_pre, DirOf(Other(side)))
    /\ \A q \in DOMAIN fs0 :
          Ignored(fs0, q) => (q \in DOMAIN fs /\ fs[q] = fs0[q])

\* with --move a call of main() ends after moving a file out of a source
\* directory that also holds a hidden file, the target holding a directory
\* whose name has the moved file's stem
C4_Witness ==
    /\ move /\ pc = "main_end"
    /\ IsFile(fs_pre, source_path \o <<HA>>)
    /\ IsDir(fs_pre, target_path \o <<AM>>)
    /\ \E i \in Lines("moved", "source", pass) : out[i].name = AP

(***************************************************************************)
(* C2                                                                      *)
(***************************************************************************)
\* the call of process_differences for side in this call of main() created or
\* found notfound and no move of it failed
CleanMove(side) ==
    Lines("mkdir_error", side, pass) = {} /\ Lines("move_failed", side, pass) = {}

\* the file that was at q when this call of main() started is still there
StillAt(q) == q \in DOMAIN fs /\ fs[q] = fs_pre[q]

\* C2: at the end of a --move comparison whose scans completed, for a direction
\* whose notfound directory was available and whose moves all succeeded, every
\* file of an exclusive stem has left the base directory and is at
\* <base>/notfound/<filename>, the stem was listed exactly once, and every file
\* of a matched stem is where it was.
C2_ExclusiveFilesAtNotfound ==
    (move /\ pc = "main_end" /\ ScansComplete(pass)) =>
        \A side \in Sides : CleanMove(side) =>
            /\ \A n \in VisibleFiles(fs_pre, DirOf(side)) :
                  LET from == DirOf(side) \o <<n>>
                      to == DirOf(side) \o <<NOTFOUND, n>>
                  IN  IF FinalExtensionCut(n) \in Range(ListOf(side))
                      THEN /\ ~StillAt(from)
                           /\ to \in DOMAIN fs /\ fs[to] = fs_pre[from]
                      ELSE StillAt(from)
            /\ \A s \in Range(ListOf(side)) :
                  Cardinality({ i \in Lines("stem", side, pass) : out[i].name = s }) = 1

(***************************************************************************)
(* C5                                                                      *)
(***************************************************************************)
AllLines(t) == { i \in DOMAIN out : out[i].t = t }

\* C5: when two different directories hold exactly the same stems, at least
\* one (and no scan is cut short), the finished invocation has printed the
\* match message exactly once and no difference report, and has created no
\* notfound directory.
C5_MatchPrintedOnce ==
    (/\ pc = "exit"
     /\ source_path # target_path
     /\ KeysOf(fs0, source_path) # {}
     /\ KeysOf(fs0, source_path) = KeysOf(fs0, target_path)
     /\ ScansComplete(1) /\ ScansComplete(2)) =>
        /\ Cardinality(AllLines("match")) = 1
        /\ AllLines("header") = {}
        /\ fs = fs0

(***************************************************************************)
(* C6                                                                      *)
(***************************************************************************)
\* C6: a finished invocation (of two different directories, no scan cut short)
\* has scanned each directory exactly once, computed
\* the difference exactly once, run process_differences at most once per
\* direction, reported each exclusive stem at most once, and has not printed
\* the match message if it reported differences.
C6_SingleLinearPass ==
    (pc = "exit" /\ source_path # target_path /\ ScansComplete(1) /\ ScansComplete(2)) =>
        /\ calls.scan_source = 1 /\ calls.scan_target = 1 /\ calls.diff = 1
        /\ calls.pd_source <= 1 /\ calls.pd_target <= 1
        /\ \A i, j \in AllLines("stem") :
              (out[i].side = out[j].side /\ out[i].name = out[j].name) => i = j
        /\ ~(AllLines("match") # {} /\ AllLines("header") # {})

(***************************************************************************)
(* C7                                                                      *)
(***************************************************************************)
\* the files process_differences is to move for side: those of its exclusive stems
FilesToMove(side) ==
    UNION { Range(MapOf(side)[s]) : s \in Range(ListOf(side)) }

\* how often a move of file n was tried for side in this call of main()
Attempts(side, n) ==
    Cardinality({ i \in Lines("moved", side, pass) \cup Lines("move_failed", side, pass) :
                    out[i].name = n })

\* C7: at the end of a --move comparison in which creating notfound failed for a
\* direction, the error was reported once, none of that directory's files was
\* moved, and the other direction was still processed: its differences were
\* reported and, its own notfound being available, each of its files was moved
\* or reported as failed.
C7_MkdirFailureSkipsOneSide ==
    (move /\ pc = "main_end") =>
        \A side \in Sides : Lines("mkdir_error", side, pass) # {} =>
            /\ Cardinality(Lines("mkdir_error", side, pass)) = 1
            /\ Lines("moved", side, pass) = {}
            /\ \A n \in FilesToMove(side) : StillAt(DirOf(side) \o <<n>>)
            /\ ListOf(Other(side)) # <<>> =>
                  /\ Lines("header", Other(side), pass) # {}
                  /\ Lines("mkdir_error", Other(side), pass) = {} =>
                        \A n \in FilesToMove(Other(side)) :
                            /\ Attempts(Other(side), n) = 1
                            /\ (\E i \in Lines("moved", Other(side), pass) : out[i].name = n)
                                  => ~StillAt(DirOf(Other(side)) \o <<n>>)

\* creating the source's notfound failed, and the target's files were then moved
C7_Witness ==
    /\ move /\ pc = "main_end"
    /\ Lines("mkdir_error", "source", pass) # {}
    /\ missing_in_target # <<>>
    /\ Lines("moved", "target", pass) # {}
    /\ Lines("move_failed", "target", pass) = {}

(***************************************************************************)
(* C8                                                                      *)
(***************************************************************************)
\* some path in or below directory d holds the file that was at q when this
\* call of main() started
HeldBelow(d, q) ==
    \E r \in DOMAIN fs : /\ Len(r) > Len(d)
                         /\ SubSeq(r, 1, Len(d)) = d
                         /\ fs[r] = fs_pre[q]

\* C8: at the end of a --move comparison, for a direction whose notfound
\* directory was available, every file of every exclusive stem was tried exactly
\* once whatever happened to the others; a file whose move failed is reported
\* for itself and is still in the base directory; a file whose move succeeded
\* is in notfound and no longer in the base directory.
C8_MoveFailureIsPerFile ==
    (move /\ pc = "main_end") =>
        \A side \in Sides : Lines("mkdir_error", side, pass) = {} =>
            \A n \in FilesToMove(side) :
                LET from == DirOf(side) \o <<n>>
                    failed == \E i \in Lines("move_failed", side, pass) : out[i].name = n
                IN  /\ Attempts(side, n) = 1
                    /\ failed => StillAt(from)
                    /\ ~failed => /\ ~StillAt(from)
                                  /\ HeldBelow(DirOf(side) \o <<NOTFOUND>>, from)

\* in one batch a move failed and a later move, of another file, succeeded
C8_Witness ==
    /\ move /\ pc = "main_end"
    /\ \E side \in Sides :
          \E i \in Lines("move_failed", side, pass), j \in Lines("moved", side, pass) :
              /\ i < j
              /\ StillAt(DirOf(side) \o <<out[i].name>>)
              /\ ~StillAt(DirOf(side) \o <<out[j].name>>)

(***************************************************************************)
(* C9                                                                      *)
(***************************************************************************)
\* C9: (in a comparison of two different directories whose scans are complete)
\* every regular file that existed when the program started still exists, at
\* some path, whatever was moved.
C9_NoFileDestroyed ==
    (source_path # target_path /\ ScansComplete(1) /\ ScansComplete(2)) =>
        \A q \in DOMAIN fs0 :
            fs0[q].kind = "file" => \E r \in DOMAIN fs : fs[r] = fs0[q]

(***************************************************************************)
(* C10                                                                     *)
(***************************************************************************)
\* C10: at the end of a --move comparison of two distinct existing directories,
\* neither the other's notfound, in which the scans, the notfound creations and
\* all moves succeeded, the stems remaining directly in the two directories are
\* the same.
C10_RemainingStemsEqual ==
    (/\ move /\ pc = "main_end"
     /\ source_path # target_path
     /\ IsDir(fs_pre, source_path) /\ IsDir(fs_pre, target_path)
     /\ target_path # source_path \o <<NOTFOUND>>
     /\ source_path # target_path \o <<NOTFOUND>>
     /\ ScansComplete(pass)
     /\ CleanMove("source") /\ CleanMove("target")) =>
        KeysOf(fs, source_path) = KeysOf(fs, target_path)

====
